---- MODULE Spec2Model ----
\* A model of the anomaly-detection subsystem of the block ledger simulation:
\* AnomalyDetector (feature extraction, one-shot baseline, z-scores) and
\* RuleBasedSecurityChecker (three fixed-threshold rules), src/anomaly.py.
\*
\* Numbers.  Feature values are integers (amounts in units of 100, time in
\* ticks of 0.01 s where the rule thresholds matter).  A mean is an exact
\* rational <<num, den>> in lowest terms, den > 0.
\* A standard deviation is the non-negative square root of a rational and is
\* held as that rational (the sample variance): std = 0 iff the variance is 0.
\* A z-score is sgn * sqrt(num/den) and is held as <<sgn, num, den>>: 0.0 is
\* <<0, 0, 1>>.  Python's None is the empty tuple.
EXTENDS Integers, Sequences, FiniteSets

\* ------------------------------------------------------------------ bounds

\* process_block calls made on one detector
MaxCalls == 4
\* baseline_size ranges over 1..MaxBaseline
MaxBaseline == 3
\* transactions in one block
MaxTxs == 2
\* block timestamps range over 0..MaxTime
MaxTime == 2
\* add_block calls made on one Blockchain
MaxBlocks == 2
\* process_block calls made on each of two detectors
MaxInstanceCalls == 3
\* process_block calls made between calls of extract_features and check_rules
MaxMixedCalls == 2
\* num_blocks of run_experiment
MaxExperimentBlocks == 3

\* ------------------------------------------------------- exact arithmetic

None == <<>>

Abs(x) == IF x < 0 THEN -x ELSE x

Sign(x) == IF x < 0 THEN -1 ELSE IF x = 0 THEN 0 ELSE 1

RECURSIVE GCD(_, _)
GCD(a, b) == IF b = 0 THEN a ELSE GCD(b, a % b)

\* the rational n/d (d # 0) in lowest terms with a positive denominator
Rat(n, d) ==
    LET g == GCD(Abs(n), Abs(d))
        s == IF d < 0 THEN -1 ELSE 1
    IN  <<(s * n) \div g, (s * d) \div g>>

RatOfInt(n) == <<n, 1>>

RatAdd(p, q) == Rat(p[1] * q[2] + q[1] * p[2], p[2] * q[2])

RatSub(p, q) == Rat(p[1] * q[2] - q[1] * p[2], p[2] * q[2])

RatMul(p, q) == Rat(p[1] * q[1], p[2] * q[2])

\* p / q for q # 0
RatDiv(p, q) == Rat(p[1] * q[2], p[2] * q[1])

RatLess(p, q) == p[1] * q[2] < q[1] * p[2]

RECURSIVE Sum(_)
Sum(lst) == IF lst = <<>> THEN 0 ELSE Head(lst) + Sum(Tail(lst))

RECURSIVE MaxFrom(_, _)
MaxFrom(lst, best) ==
    IF lst = <<>> THEN best
    ELSE MaxFrom(Tail(lst), IF Head(lst) > best THEN Head(lst) ELSE best)

\* max(lst, default=default)
Max(lst, default) ==
    IF lst = <<>> THEN default ELSE MaxFrom(Tail(lst), Head(lst))

\* statistics.mean(lst), lst non-empty: the exact arithmetic mean
StatisticsMean(lst) == Rat(Sum(lst), Len(lst))

RECURSIVE SumSqDev(_, _)
SumSqDev(lst, m) ==
    IF lst = <<>> THEN <<0, 1>>
    ELSE LET d == RatSub(RatOfInt(Head(lst)), m)
         IN  RatAdd(RatMul(d, d), SumSqDev(Tail(lst), m))

\* statistics.stdev(lst), Len(lst) > 1: the square root of the sample variance
\* sum((x - mean)^2) / (n - 1); held as the variance
StatisticsStdev(lst) ==
    RatDiv(SumSqDev(lst, StatisticsMean(lst)), RatOfInt(Len(lst) - 1))

\* ------------------------------------------------------------ input domains

FeatureNames == <<"num_txs", "total_amount", "max_amount", "time_delta">>

FeatureSet == {"num_txs", "total_amount", "max_amount", "time_delta"}

Features(n, t, m, d) ==
    [num_txs |-> n, total_amount |-> t, max_amount |-> m, time_delta |-> d]

\* <<num_txs, total_amount, max_amount>> of the blocks handed to process_block:
\* two normal blocks (2 and 3 small transactions) and an anomalous one (9
\* transactions with large amounts), as run_experiment generates them
BlockProfiles == {<<2, 10, 5>>, <<3, 10, 5>>, <<9, 60, 25>>}

TimeDeltaValues == {0, 1}

\* the feature vectors handed to process_block
FeatureVectors ==
    {Features(p[1], p[2], p[3], d) : p \in BlockProfiles, d \in TimeDeltaValues}

BaselineSizes == 1..MaxBaseline

\* transaction amounts and the blocks extract_features is applied to
Amounts == {5, 25}

RECURSIVE SeqsUpTo(_, _)
SeqsUpTo(S, n) ==
    IF n = 0 THEN {<<>>}
    ELSE LET shorter == SeqsUpTo(S, n - 1)
         IN  shorter \cup {Append(q, x) : q \in shorter, x \in S}

Transactions == [amount : Amounts]

Blocks == [timestamp : 0..MaxTime, transactions : SeqsUpTo(Transactions, MaxTxs)]

\* feature vectors handed to check_rules directly; a negative time_delta is a
\* clock that stepped back between two blocks
RuleFeatureVectors ==
    [num_txs : {2}, total_amount : {10, 60}, max_amount : {5, 25},
     time_delta : -1..3]

\* RuleBasedSecurityChecker thresholds: the defaults 2000.0, 5000.0 and 0.02
\* in units of 100 and of 0.01 s, and one more value each
DefaultMaxSingleTxAmount == 20
DefaultMaxBlockTotalAmount == 50
DefaultMinTimeDelta == 2
\* run_experiment's baseline_size
ExperimentBaselineSize == 10
MaxSingleTxAmounts == {5, DefaultMaxSingleTxAmount}
MaxBlockTotalAmounts == {10, DefaultMaxBlockTotalAmount}
MinTimeDeltas == {0, DefaultMinTimeDelta}

\* z_threshold: 0, the driver's 1.5 and the default 3.0
ZThresholds == {<<0, 1>>, <<3, 2>>, <<3, 1>>}

VARIABLES
    baseline_size, z_threshold,
    num_txs_history, total_amount_history, max_amount_history, time_delta_history,
    baseline_ready, stats,
    calls, passed, decision,
    max_single_tx_amount, max_block_total_amount, min_time_delta,
    current_block, previous_block, features,
    checked, rule_decision,
    chain, tampered,
    heap, detectors, made, last,
    pc, iteration, num_blocks

detector_vars ==
    <<baseline_size, z_threshold, num_txs_history, total_amount_history,
      max_amount_history, time_delta_history, baseline_ready, stats,
      calls, passed, decision>>

checker_vars == <<max_single_tx_amount, max_block_total_amount, min_time_delta>>

call_vars == <<current_block, previous_block, features, checked, rule_decision>>

\* the Blockchain's chain; tampered tells whether a field of one of its blocks
\* was assigned after the block's construction
chain_vars == <<chain, tampered>>

\* several AnomalyDetector objects: heap holds the list objects (a list's
\* address is its place in heap), detectors the objects' attributes, the
\* history attributes being addresses; made[i] is the feature vectors passed to
\* detector i so far and last the detector last called with its decision
instance_vars == <<heap, detectors, made, last>>

\* run_experiment: the statement it is at, its loop variable i and its
\* parameter num_blocks
experiment_vars == <<pc, iteration, num_blocks>>

vars ==
    <<detector_vars, checker_vars, call_vars, chain_vars, instance_vars,
      experiment_vars>>

\* --------------------------------------------------------- AnomalyDetector

UndefinedStats == [f \in FeatureSet |-> [mean |-> None, std |-> None]]

\* AnomalyDetector.__init__; calls counts the process_block calls made, passed
\* and decision hold the features passed to the last one and what it returned
DetectorInit ==
    /\ baseline_size \in BaselineSizes
    /\ z_threshold \in ZThresholds
    /\ num_txs_history = <<>>
    /\ total_amount_history = <<>>
    /\ max_amount_history = <<>>
    /\ time_delta_history = <<>>
    /\ baseline_ready = FALSE
    /\ stats = UndefinedStats
    /\ calls = 0
    /\ passed = None
    /\ decision = None

\* a slip in mean_std: the population deviation statistics.pstdev
mean_std_population(lst) ==
    [mean |-> StatisticsMean(lst),
     std  |-> IF Len(lst) > 1
              THEN RatDiv(SumSqDev(lst, StatisticsMean(lst)), RatOfInt(Len(lst)))
              ELSE <<0, 1>>]

\* a slip in mean_std: a single sample is given the standard deviation 1.0
mean_std_unit_std(lst) ==
    [mean |-> StatisticsMean(lst),
     std  |-> IF Len(lst) > 1 THEN StatisticsStdev(lst) ELSE <<1, 1>>]

mean_std(lst) ==
    [mean |-> StatisticsMean(lst),
     std  |-> IF Len(lst) > 1 THEN StatisticsStdev(lst) ELSE <<0, 1>>]

\* a slip in _compute_baseline: the time_delta stats are never stored
_compute_baseline_without_time_delta(nh, th, mh, dh) ==
    [f \in FeatureSet |->
        CASE f = "num_txs"      -> mean_std(nh)
          [] f = "total_amount" -> mean_std(th)
          [] f = "max_amount"   -> mean_std(mh)
          [] f = "time_delta"   -> [mean |-> None, std |-> None]]

\* the stats _compute_baseline stores, from the four histories
_compute_baseline(nh, th, mh, dh) ==
    [f \in FeatureSet |->
        CASE f = "num_txs"      -> mean_std(nh)
          [] f = "total_amount" -> mean_std(th)
          [] f = "max_amount"   -> mean_std(mh)
          [] f = "time_delta"   -> mean_std(dh)]

\* a slip in _z_score: (mean - value) / std
_z_score_reversed(value, mean, std) ==
    IF std = <<0, 1>> THEN <<0, 0, 1>>
    ELSE LET d == RatSub(mean, RatOfInt(value))
             q == RatDiv(RatMul(d, d), std)
         IN  <<Sign(d[1]), q[1], q[2]>>

_z_score(value, mean, std) ==
    IF std = <<0, 1>> THEN <<0, 0, 1>>
    ELSE LET d == RatSub(RatOfInt(value), mean)
             q == RatDiv(RatMul(d, d), std)
         IN  <<Sign(d[1]), q[1], q[2]>>

\* a slip in the comparison: abs(z) >= z_threshold
AbsExceeds_or_equals(z, threshold) ==
    \/ threshold[1] < 0
    \/ ~RatLess(<<z[2], z[3]>>, RatMul(threshold, threshold))

\* abs(z) > z_threshold
AbsExceeds(z, threshold) ==
    \/ threshold[1] < 0
    \/ RatLess(RatMul(threshold, threshold), <<z[2], z[3]>>)

\* [f for f, z in z_scores.items() if abs(z) > self.z_threshold], in key order
anomalies(z_scores, threshold) ==
    SelectSeq(FeatureNames, LAMBDA f : AbsExceeds(z_scores[f], threshold))

\* the empty dict: a function with no keys
NoZScores == [f \in {} |-> <<0, 0, 1>>]

Decision(block_index, is_anomaly, z_scores, reason, anoms) ==
    [block_index |-> block_index, is_anomaly |-> is_anomaly,
     feature_z_scores |-> z_scores,
     reason |-> [text |-> reason, features |-> anoms]]

\* a slip in _update_history: max_amount appended to the total_amount history
_update_history_swapped(num_txs, total_amount, max_amount, time_delta) ==
    [num_txs      |-> Append(num_txs_history, num_txs),
     total_amount |-> Append(total_amount_history, max_amount),
     max_amount   |-> Append(max_amount_history, max_amount),
     time_delta   |-> Append(time_delta_history, time_delta)]

\* the four histories after _update_history(num_txs, total_amount, max_amount,
\* time_delta)
_update_history(num_txs, total_amount, max_amount, time_delta) ==
    [num_txs      |-> Append(num_txs_history, num_txs),
     total_amount |-> Append(total_amount_history, total_amount),
     max_amount   |-> Append(max_amount_history, max_amount),
     time_delta   |-> Append(time_delta_history, time_delta)]

\* a slip in the length check: <= for <
NotEnoughData_off_by_one(length, size) == length <= size

\* len(self.num_txs_history) < self.baseline_size
NotEnoughData(length, size) == length < size

\* a rolling baseline: recomputed on every call once enough data is there
BaselineMissing_always(ready) == TRUE

\* not self.baseline_ready
BaselineMissing(ready) == ~ready

ProcessBlock(block_index, feats) ==
    LET h == _update_history(feats.num_txs, feats.total_amount,
                             feats.max_amount, feats.time_delta)
    IN  /\ Len(num_txs_history) < MaxCalls
        /\ num_txs_history' = h.num_txs
        /\ total_amount_history' = h.total_amount
        /\ max_amount_history' = h.max_amount
        /\ time_delta_history' = h.time_delta
        /\ calls' = calls + 1
        /\ passed' = feats
        /\ UNCHANGED <<baseline_size, z_threshold>>
        /\ IF NotEnoughData(Len(h.num_txs), baseline_size)
           THEN /\ decision' = Decision(block_index, FALSE, NoZScores,
                                        "Not enough data for baseline", <<>>)
                /\ UNCHANGED <<baseline_ready, stats>>
           ELSE IF BaselineMissing(baseline_ready)
           THEN /\ stats' = _compute_baseline(h.num_txs, h.total_amount,
                                              h.max_amount, h.time_delta)
                /\ baseline_ready' = TRUE
                /\ decision' = Decision(block_index, FALSE, NoZScores,
                                        "Baseline just computed; no detection yet",
                                        <<>>)
           ELSE LET z_scores == [f \in FeatureSet |->
                                   _z_score(feats[f], stats[f].mean, stats[f].std)]
                    anoms == anomalies(z_scores, z_threshold)
                IN  /\ decision' =
                          IF anoms # <<>>
                          THEN Decision(block_index, TRUE, z_scores,
                                        "Anomalous features", anoms)
                          ELSE Decision(block_index, FALSE, z_scores,
                                        "Within normal range", <<>>)
                    /\ UNCHANGED <<baseline_ready, stats>>

\* the amounts of a block's transactions, in order
AmountsOf(block) ==
    [i \in 1..Len(block.transactions) |-> block.transactions[i].amount]

\* a slip in extract_features: the time difference taken the wrong way round
extract_features_slips(cur, prev) ==
    [num_txs      |-> Len(cur.transactions),
     total_amount |-> IF cur.transactions # <<>> THEN Sum(AmountsOf(cur)) ELSE 0,
     max_amount   |-> Max(AmountsOf(cur), 0),
     time_delta   |-> IF prev # None THEN prev.timestamp - cur.timestamp ELSE 0]

\* the blocks of a caller that calls the detector and the checker in any order
MixedBlocks ==
    {[timestamp |-> 0, transactions |-> <<[amount |-> 5]>>],
     [timestamp |-> 1, transactions |-> <<[amount |-> 5], [amount |-> 25]>>]}

extract_features(cur, prev) ==
    [num_txs      |-> Len(cur.transactions),
     total_amount |-> IF cur.transactions # <<>> THEN Sum(AmountsOf(cur)) ELSE 0,
     max_amount   |-> Max(AmountsOf(cur), 0),
     time_delta   |-> IF prev # None THEN cur.timestamp - prev.timestamp ELSE 0]

\* a slip in extract_features: the features are recorded in the histories
ExtractFeatures_recording(cur, prev) ==
    LET f == extract_features(cur, prev)
        h == _update_history(f.num_txs, f.total_amount, f.max_amount, f.time_delta)
    IN  /\ features' = f
        /\ num_txs_history' = h.num_txs
        /\ total_amount_history' = h.total_amount
        /\ max_amount_history' = h.max_amount
        /\ time_delta_history' = h.time_delta
        /\ UNCHANGED <<baseline_size, z_threshold, baseline_ready, stats, calls,
                       passed, decision, checker_vars, current_block,
                       previous_block, checked, rule_decision>>

\* a call of extract_features on the caller's blocks; features holds its result
ExtractFeatures(cur, prev) ==
    /\ features' = extract_features(cur, prev)
    /\ UNCHANGED <<detector_vars, checker_vars, current_block, previous_block,
                   checked, rule_decision>>

\* ------------------------------------------------ RuleBasedSecurityChecker

\* RuleBasedSecurityChecker.__init__
CheckerInit ==
    /\ max_single_tx_amount \in MaxSingleTxAmounts
    /\ max_block_total_amount \in MaxBlockTotalAmounts
    /\ min_time_delta \in MinTimeDeltas

\* no call made yet, and no block at hand
CallInit ==
    /\ current_block = None
    /\ previous_block = None
    /\ features = None
    /\ checked = None
    /\ rule_decision = None

\* no call made yet; the caller holds a block and its predecessor (None for
\* the first block), or no block at all and builds feature vectors itself
CallInitWithBlocks ==
    /\ \/ current_block \in Blocks /\ previous_block \in Blocks \cup {None}
       \/ current_block = None /\ previous_block = None
    /\ features = None
    /\ checked = None
    /\ rule_decision = None

\* the caller gets a new block; the block it held becomes the previous one
NextBlock(block) ==
    /\ current_block' = block
    /\ previous_block' = current_block
    /\ UNCHANGED <<detector_vars, checker_vars, features, checked, rule_decision>>

\* the caller builds the feature vector itself
SupplyFeatures(f) ==
    /\ features' = f
    /\ UNCHANGED <<detector_vars, checker_vars, current_block, previous_block,
                   checked, rule_decision>>

\* a violation string names the rule, the measured value and the threshold
Violation(rule, value, threshold) ==
    [rule |-> rule, value |-> value, threshold |-> threshold]

\* a short-circuiting chain (elif): only the first violated rule is reported
check_rules_short_circuit(f) ==
    LET violations ==
            IF f.max_amount > max_single_tx_amount
            THEN <<Violation("Rule1", f.max_amount, max_single_tx_amount)>>
            ELSE IF f.total_amount > max_block_total_amount
            THEN <<Violation("Rule2", f.total_amount, max_block_total_amount)>>
            ELSE IF f.time_delta # 0 /\ f.time_delta < min_time_delta
            THEN <<Violation("Rule3", f.time_delta, min_time_delta)>>
            ELSE <<>>
    IN  [rule_alert |-> Len(violations) > 0, violations |-> violations]

\* Rule 3 without the exemption of time_delta == 0.0
check_rules_no_exemption(f) ==
    LET v1 == IF f.max_amount > max_single_tx_amount
              THEN <<Violation("Rule1", f.max_amount, max_single_tx_amount)>>
              ELSE <<>>
        v2 == IF f.total_amount > max_block_total_amount
              THEN <<Violation("Rule2", f.total_amount, max_block_total_amount)>>
              ELSE <<>>
        v3 == IF f.time_delta < min_time_delta
              THEN <<Violation("Rule3", f.time_delta, min_time_delta)>>
              ELSE <<>>
        violations == v1 \o v2 \o v3
    IN  [rule_alert |-> Len(violations) > 0, violations |-> violations]

\* a checker that waits for the detector: no rule is evaluated before the
\* baseline is ready
check_rules_once_baseline_ready(f) ==
    LET v1 == IF f.max_amount > max_single_tx_amount
              THEN <<Violation("Rule1", f.max_amount, max_single_tx_amount)>>
              ELSE <<>>
        v2 == IF f.total_amount > max_block_total_amount
              THEN <<Violation("Rule2", f.total_amount, max_block_total_amount)>>
              ELSE <<>>
        v3 == IF f.time_delta # 0 /\ f.time_delta < min_time_delta
              THEN <<Violation("Rule3", f.time_delta, min_time_delta)>>
              ELSE <<>>
        violations == IF baseline_ready THEN v1 \o v2 \o v3 ELSE <<>>
    IN  [rule_alert |-> Len(violations) > 0, violations |-> violations]

check_rules(f) ==
    LET v1 == IF f.max_amount > max_single_tx_amount
              THEN <<Violation("Rule1", f.max_amount, max_single_tx_amount)>>
              ELSE <<>>
        v2 == IF f.total_amount > max_block_total_amount
              THEN <<Violation("Rule2", f.total_amount, max_block_total_amount)>>
              ELSE <<>>
        v3 == IF f.time_delta # 0 /\ f.time_delta < min_time_delta
              THEN <<Violation("Rule3", f.time_delta, min_time_delta)>>
              ELSE <<>>
        violations == v1 \o v2 \o v3
    IN  [rule_alert |-> Len(violations) > 0, violations |-> violations]

\* a call of check_rules; checked and rule_decision hold its argument and result
CheckRules(f) ==
    /\ checked' = f
    /\ rule_decision' = check_rules(f)
    /\ UNCHANGED <<detector_vars, checker_vars, current_block, previous_block,
                   features>>

\* ---------------------------------------------------------------- Blockchain

\* hashlib.sha256(json.dumps(block_dict, sort_keys=True)).hexdigest(): a
\* collision-free digest, held as the contents it was computed from
Sha256(block_dict) == <<"sha256", block_dict>>

\* the hash the string "0" stands for in the genesis block's previous_hash
ZeroHash == <<"0">>

\* Block.compute_hash: the digest of all fields but hash
compute_hash(block) ==
    Sha256(<<block.index, block.timestamp, block.transactions,
             block.previous_hash, block.nonce>>)

\* a slip in __post_init__: the hash is taken before previous_hash is set
Block_hashed_early(index, timestamp, transactions, previous_hash) ==
    LET fields == [index |-> index, timestamp |-> timestamp,
                   transactions |-> transactions, previous_hash |-> ZeroHash,
                   nonce |-> 0]
    IN  [index |-> index, timestamp |-> timestamp,
         transactions |-> transactions, previous_hash |-> previous_hash,
         nonce |-> 0, hash |-> compute_hash(fields)]

\* Block(index, timestamp, transactions, previous_hash): nonce defaults to 0
\* and __post_init__ sets hash
Block(index, timestamp, transactions, previous_hash) ==
    LET fields == [index |-> index, timestamp |-> timestamp,
                   transactions |-> transactions, previous_hash |-> previous_hash,
                   nonce |-> 0]
    IN  [index |-> index, timestamp |-> timestamp,
         transactions |-> transactions, previous_hash |-> previous_hash,
         nonce |-> 0, hash |-> compute_hash(fields)]

\* the chain after create_genesis_block at time now
create_genesis_block(ch, now) == Append(ch, Block(0, now, <<>>, ZeroHash))

last_block(ch) == ch[Len(ch)]

\* a slip in add_block: the index counts from 1
add_block_index_from_one(ch, now, transactions) ==
    Append(ch, Block(Len(ch) + 1, now, transactions, last_block(ch).hash))

\* the chain after add_block(transactions) at time now
add_block(ch, now, transactions) ==
    Append(ch, Block(Len(ch), now, transactions, last_block(ch).hash))

\* is_chain_valid: the loop runs over range(1, len(self.chain))
is_chain_valid(ch) ==
    \A i \in 2..Len(ch) :
        /\ ch[i].hash = compute_hash(ch[i])
        /\ ch[i].previous_hash = ch[i - 1].hash

\* the transaction lists handed to add_block
ChainTransactionLists ==
    {<<>>, <<[amount |-> 5]>>, <<[amount |-> 5], [amount |-> 25]>>}

\* no Blockchain was constructed
NoChain ==
    /\ chain = <<>>
    /\ tampered = FALSE

\* Blockchain.__init__ at any time of the clock
ChainInit ==
    /\ \E now \in 0..MaxTime : chain = create_genesis_block(<<>>, now)
    /\ tampered = FALSE

\* a call of add_block; time.time() does not run backwards
AddBlock(transactions) ==
    /\ Len(chain) <= MaxBlocks
    /\ \E now \in last_block(chain).timestamp..MaxTime :
          chain' = add_block(chain, now, transactions)
    /\ UNCHANGED tampered

\* the values an assignment can give a block's field
FieldValues(field) ==
    CASE field = "timestamp"     -> 0..MaxTime
      [] field = "transactions"  -> ChainTransactionLists
      [] field = "nonce"         -> {0, 1}
      [] field = "previous_hash" -> {ZeroHash, Sha256(<<>>)}
      [] field = "hash"          -> {Sha256(<<>>)}

\* Block is a plain dataclass: any code holding the chain can assign a field
\* of a block after its construction (once, in this model)
Tamper(i, field, value) ==
    /\ ~tampered
    /\ chain[i][field] # value
    /\ chain' = [chain EXCEPT ![i][field] = value]
    /\ tampered' = TRUE

\* ------------------------------------------------------- detector instances

\* AnomalyDetector(baseline_size, z_threshold) constructed on the heap hp:
\* __init__ binds each history attribute to a new empty list
AnomalyDetector_class_level_lists(hp, size, threshold) ==
    [heap |-> IF hp = <<>> THEN <<<<>>, <<>>, <<>>, <<>>>> ELSE hp,
     self |-> [baseline_size |-> size, z_threshold |-> threshold,
               num_txs_history |-> 1, total_amount_history |-> 2,
               max_amount_history |-> 3, time_delta_history |-> 4,
               baseline_ready |-> FALSE, stats |-> UndefinedStats]]

AnomalyDetector(hp, size, threshold) ==
    [heap |-> hp \o <<<<>>, <<>>, <<>>, <<>>>>,
     self |-> [baseline_size |-> size, z_threshold |-> threshold,
               num_txs_history |-> Len(hp) + 1,
               total_amount_history |-> Len(hp) + 2,
               max_amount_history |-> Len(hp) + 3,
               time_delta_history |-> Len(hp) + 4,
               baseline_ready |-> FALSE, stats |-> UndefinedStats]]

\* the feature vectors handed to the detectors: two normal blocks and an
\* anomalous one
InstanceFeatureVectors ==
    {Features(2, 10, 5, 0), Features(3, 10, 5, 1), Features(9, 60, 25, 1)}

InstanceBaselineSizes == {1, 2}

\* no detector object was constructed
NoInstances ==
    /\ heap = <<>>
    /\ detectors = <<>>
    /\ made = <<>>
    /\ last = None

\* two detectors constructed one after the other
InstancesInit ==
    \E size1 \in InstanceBaselineSizes, size2 \in InstanceBaselineSizes :
        LET first  == AnomalyDetector(<<>>, size1, <<3, 2>>)
            second == AnomalyDetector(first.heap, size2, <<3, 2>>)
        IN  /\ heap = second.heap
            /\ detectors = <<first.self, second.self>>
            /\ made = <<<<>>, <<>>>>
            /\ last = None

\* the heap after self._update_history(num_txs, total_amount, max_amount,
\* time_delta): four appends, one after the other
UpdateHistoryOf(self, hp, feats) ==
    LET h1 == [hp EXCEPT ![self.num_txs_history] = Append(@, feats.num_txs)]
        h2 == [h1 EXCEPT ![self.total_amount_history] = Append(@, feats.total_amount)]
        h3 == [h2 EXCEPT ![self.max_amount_history] = Append(@, feats.max_amount)]
    IN  [h3 EXCEPT ![self.time_delta_history] = Append(@, feats.time_delta)]

\* detectors[i].process_block(block_index, feats)
ProcessBlockOn(i, block_index, feats) ==
    LET self == detectors[i]
        hp == UpdateHistoryOf(self, heap, feats)
    IN  /\ Len(made[i]) < MaxInstanceCalls
        /\ heap' = hp
        /\ made' = [made EXCEPT ![i] = Append(@, feats)]
        /\ IF NotEnoughData(Len(hp[self.num_txs_history]), self.baseline_size)
           THEN /\ last' = [instance |-> i,
                            decision |-> Decision(block_index, FALSE, NoZScores,
                                            "Not enough data for baseline", <<>>)]
                /\ UNCHANGED detectors
           ELSE IF BaselineMissing(self.baseline_ready)
           THEN /\ detectors' =
                      [detectors EXCEPT
                          ![i].stats = _compute_baseline(
                                           hp[self.num_txs_history],
                                           hp[self.total_amount_history],
                                           hp[self.max_amount_history],
                                           hp[self.time_delta_history]),
                          ![i].baseline_ready = TRUE]
                /\ last' = [instance |-> i,
                            decision |-> Decision(block_index, FALSE, NoZScores,
                                            "Baseline just computed; no detection yet",
                                            <<>>)]
           ELSE LET z_scores == [f \in FeatureSet |->
                                   _z_score(feats[f], self.stats[f].mean,
                                            self.stats[f].std)]
                    anoms == anomalies(z_scores, self.z_threshold)
                IN  /\ last' = [instance |-> i,
                                decision |->
                                    IF anoms # <<>>
                                    THEN Decision(block_index, TRUE, z_scores,
                                                  "Anomalous features", anoms)
                                    ELSE Decision(block_index, FALSE, z_scores,
                                                  "Within normal range", <<>>)]
                    /\ UNCHANGED detectors

\* ------------------------------------------------------------ run_experiment

\* run_experiment is not running
NoExperiment ==
    /\ pc = "idle"
    /\ iteration = 0
    /\ num_blocks = 0

\* the block contents run_experiment generates, as <<transactions, sleep>>:
\* two normal blocks (1 to 5 transactions of at most 100, sleep 0.1 s) and an
\* anomalous one (6 to 10 transactions of 1000 to 5000, sleep 0.01 s)
GeneratedBlocks ==
    {<<[k \in 1..2 |-> [amount |-> 1]], 10>>,
     <<[k \in 1..3 |-> [amount |-> 1]], 10>>,
     <<[k \in 1..6 |-> [amount |-> 25]], 1>>}

\* run_experiment's parameter baseline_size
ExperimentBaselineSizes == 1..(MaxExperimentBlocks + 1)

\* run_experiment up to the loop: bc, detector, previous_block
ExperimentInit ==
    /\ num_blocks \in 1..MaxExperimentBlocks
    /\ chain = create_genesis_block(<<>>, 0)
    /\ tampered = FALSE
    /\ baseline_size \in ExperimentBaselineSizes
    /\ z_threshold = <<3, 2>>
    /\ num_txs_history = <<>>
    /\ total_amount_history = <<>>
    /\ max_amount_history = <<>>
    /\ time_delta_history = <<>>
    /\ baseline_ready = FALSE
    /\ stats = UndefinedStats
    /\ calls = 0
    /\ passed = None
    /\ decision = None
    /\ previous_block = last_block(chain)
    /\ current_block = None
    /\ features = None
    /\ checked = None
    /\ rule_decision = None
    /\ iteration = 1
    /\ pc = "add_block"

\* txs are generated, the sleep passes, new_block = bc.add_block(txs)
ExperimentAddBlock(transactions, sleep) ==
    /\ pc = "add_block"
    /\ iteration <= num_blocks
    /\ chain' = add_block(chain, last_block(chain).timestamp + sleep, transactions)
    /\ current_block' = last_block(chain')
    /\ pc' = "extract_features"
    /\ UNCHANGED <<detector_vars, checker_vars, previous_block, features,
                   checked, rule_decision, tampered, iteration, num_blocks>>

\* features = detector.extract_features(new_block, previous_block)
ExperimentExtractFeatures ==
    /\ pc = "extract_features"
    /\ ExtractFeatures(current_block, previous_block)
    /\ pc' = "process_block"
    /\ UNCHANGED <<chain_vars, iteration, num_blocks>>

\* decision = detector.process_block(new_block.index, features)
ExperimentProcessBlock ==
    /\ pc = "process_block"
    /\ ProcessBlock(current_block.index, features)
    /\ pc' = "check_rules"
    /\ UNCHANGED <<checker_vars, call_vars, chain_vars, iteration, num_blocks>>

\* rule_decision = rule_checker.check_rules(features)
ExperimentCheckRules ==
    /\ pc = "check_rules"
    /\ CheckRules(features)
    /\ pc' = "end_of_iteration"
    /\ UNCHANGED <<chain_vars, iteration, num_blocks>>

\* a slip at the end of the loop body: previous_block is not moved on
ExperimentEndOfIteration_previous_kept ==
    /\ pc = "end_of_iteration"
    /\ iteration' = iteration + 1
    /\ pc' = "add_block"
    /\ UNCHANGED <<detector_vars, checker_vars, call_vars, chain_vars, num_blocks>>

\* previous_block = new_block, and the loop goes on to the next i
ExperimentEndOfIteration ==
    /\ pc = "end_of_iteration"
    /\ previous_block' = current_block
    /\ iteration' = iteration + 1
    /\ pc' = "add_block"
    /\ UNCHANGED <<detector_vars, checker_vars, current_block, features,
                   checked, rule_decision, chain_vars, num_blocks>>

\* the loop is over
ExperimentDone ==
    /\ pc = "add_block"
    /\ iteration > num_blocks
    /\ pc' = "done"
    /\ UNCHANGED <<detector_vars, checker_vars, call_vars, chain_vars,
                   iteration, num_blocks>>

\* ------------------------------------------------------------ specifications

\* the checker's defaults, for the specification of the detector alone
DefaultChecker ==
    /\ max_single_tx_amount = DefaultMaxSingleTxAmount
    /\ max_block_total_amount = DefaultMaxBlockTotalAmount
    /\ min_time_delta = DefaultMinTimeDelta

\* one detector, and process_block called with any feature vectors
Init ==
    /\ DetectorInit /\ DefaultChecker /\ CallInit
    /\ NoChain /\ NoInstances /\ NoExperiment

Next ==
    \E f \in FeatureVectors :
        /\ ProcessBlock(Len(num_txs_history) + 1, f)
        /\ UNCHANGED <<checker_vars, call_vars, chain_vars, instance_vars,
                     experiment_vars>>

Spec == Init /\ [][Next]_vars

\* the detector of run_experiment (baseline_size 10, z_threshold 1.5), for the
\* specification of the stateless calls
ExperimentDetector ==
    /\ baseline_size = ExperimentBaselineSize
    /\ z_threshold = <<3, 2>>
    /\ num_txs_history = <<>>
    /\ total_amount_history = <<>>
    /\ max_amount_history = <<>>
    /\ time_delta_history = <<>>
    /\ baseline_ready = FALSE
    /\ stats = UndefinedStats
    /\ calls = 0
    /\ passed = None
    /\ decision = None

\* one checker; extract_features is applied to the caller's blocks, or the
\* caller supplies a vector, and check_rules is applied to the features
InitRules ==
    /\ ExperimentDetector /\ CheckerInit /\ CallInitWithBlocks
    /\ NoChain /\ NoInstances /\ NoExperiment

NextRules ==
    \/ /\ current_block # None
       /\ ExtractFeatures(current_block, previous_block)
       /\ UNCHANGED <<chain_vars, instance_vars, experiment_vars>>
    \/ /\ current_block = None
       /\ \E f \in RuleFeatureVectors : SupplyFeatures(f)
       /\ UNCHANGED <<chain_vars, instance_vars, experiment_vars>>
    \/ /\ features # None
       /\ CheckRules(features)
       /\ UNCHANGED <<chain_vars, instance_vars, experiment_vars>>

SpecRules == InitRules /\ [][NextRules]_vars

\* one Blockchain: add_block called with any transaction lists, and one
\* assignment to a field of a block
InitChain ==
    /\ ExperimentDetector /\ DefaultChecker /\ CallInit
    /\ ChainInit /\ NoInstances /\ NoExperiment

NextChain ==
    \/ /\ \E transactions \in ChainTransactionLists : AddBlock(transactions)
       /\ UNCHANGED <<detector_vars, checker_vars, call_vars, instance_vars,
                    experiment_vars>>
    \/ /\ \E i \in 1..Len(chain) :
          \E field \in {"timestamp", "transactions", "nonce", "previous_hash", "hash"} :
            \E value \in FieldValues(field) : Tamper(i, field, value)
       /\ UNCHANGED <<detector_vars, checker_vars, call_vars, instance_vars,
                    experiment_vars>>

SpecChain == InitChain /\ [][NextChain]_vars

\* two detectors, and process_block called on either, in any order
InitInstances ==
    /\ ExperimentDetector /\ DefaultChecker /\ CallInit
    /\ NoChain /\ InstancesInit /\ NoExperiment

NextInstances ==
    \E i \in {1, 2}, f \in InstanceFeatureVectors :
        /\ ProcessBlockOn(i, Len(made[i]) + 1, f)
        /\ UNCHANGED <<detector_vars, checker_vars, call_vars, chain_vars,
                     experiment_vars>>

SpecInstances == InitInstances /\ [][NextInstances]_vars

\* a detector with a short baseline, as yet uncalled
MixedDetector ==
    /\ baseline_size \in InstanceBaselineSizes
    /\ z_threshold = <<3, 2>>
    /\ num_txs_history = <<>>
    /\ total_amount_history = <<>>
    /\ max_amount_history = <<>>
    /\ time_delta_history = <<>>
    /\ baseline_ready = FALSE
    /\ stats = UndefinedStats
    /\ calls = 0
    /\ passed = None
    /\ decision = None

\* one detector and one checker; the caller holds its first block
InitMixed ==
    /\ MixedDetector /\ DefaultChecker /\ NoChain /\ NoInstances /\ NoExperiment
    /\ current_block \in MixedBlocks
    /\ previous_block = None
    /\ features = None
    /\ checked = None
    /\ rule_decision = None

\* extract_features, process_block and check_rules called in any order, on
\* any sequence of blocks
NextMixed ==
    \/ /\ \E block \in MixedBlocks : NextBlock(block)
       /\ UNCHANGED <<chain_vars, instance_vars, experiment_vars>>
    \/ /\ ExtractFeatures(current_block, previous_block)
       /\ UNCHANGED <<chain_vars, instance_vars, experiment_vars>>
    \/ /\ features # None
       /\ calls < MaxMixedCalls
       /\ ProcessBlock(calls + 1, features)
       /\ UNCHANGED <<checker_vars, call_vars, chain_vars, instance_vars,
                     experiment_vars>>
    \/ /\ features # None
       /\ CheckRules(features)
       /\ UNCHANGED <<chain_vars, instance_vars, experiment_vars>>

SpecMixed == InitMixed /\ [][NextMixed]_vars

\* run_experiment, one call at a time
InitExperiment == ExperimentInit /\ DefaultChecker /\ NoInstances

NextExperiment ==
    \/ /\ \E b \in GeneratedBlocks : ExperimentAddBlock(b[1], b[2])
       /\ UNCHANGED instance_vars
    \/ ExperimentExtractFeatures /\ UNCHANGED instance_vars
    \/ ExperimentProcessBlock /\ UNCHANGED instance_vars
    \/ ExperimentCheckRules /\ UNCHANGED instance_vars
    \/ ExperimentEndOfIteration /\ UNCHANGED instance_vars
    \/ ExperimentDone /\ UNCHANGED instance_vars

SpecExperiment == InitExperiment /\ [][NextExperiment]_vars

\* ------------------------------------------------------------------ claims

HistoryLength == Len(num_txs_history)

History(f) ==
    CASE f = "num_txs"      -> num_txs_history
      [] f = "total_amount" -> total_amount_history
      [] f = "max_amount"   -> max_amount_history
      [] f = "time_delta"   -> time_delta_history

\* the first baseline_size values of feature f
BaselineWindow(f) == SubSeq(History(f), 1, baseline_size)

\* the baseline of the first baseline_size values of every feature
WindowBaseline == [f \in FeatureSet |-> mean_std(BaselineWindow(f))]

StatsUndefined ==
    \A f \in FeatureSet : stats[f].mean = None /\ stats[f].std = None

StatsDefined ==
    \A f \in FeatureSet : stats[f].mean # None /\ stats[f].std # None

C1_BaselineAtCall ==
    IF HistoryLength < baseline_size
    THEN ~baseline_ready /\ StatsUndefined
    ELSE baseline_ready /\ StatsDefined /\ stats = WindowBaseline

C1_BaselineStep ==
    /\ (~baseline_ready /\ baseline_ready') => Len(num_txs_history') = baseline_size
    /\ baseline_ready => (baseline_ready' /\ stats' = stats)

\* C1: the baseline is undefined (all eight mean/std values None) before the
\* call that brings the history length to baseline_size, becomes defined on
\* exactly that call, and from then on keeps the values computed on that call
\* (those of the first baseline_size values) through every later call.
C1_BaselineOnce == []C1_BaselineAtCall /\ [][C1_BaselineStep]_vars

\* a call after the baseline was computed, on which a recomputation over the
\* whole history would have changed all four features' stats
C1_Witness ==
    /\ HistoryLength > baseline_size
    /\ baseline_ready
    /\ \A f \in FeatureSet : stats[f] # mean_std(History(f))

C2_Lengths == \A f \in FeatureSet : Len(History(f)) = calls

C2_Append == \A f \in FeatureSet : History(f)' = Append(History(f), passed'[f])

\* C2: after N calls each of the four histories has length N, and every call,
\* in whatever state it is made, appends the four feature values passed to it
\* and leaves the earlier entries as they are (so the i-th element is the value
\* passed on the i-th call).
C2_HistoryIsTheCalls == []C2_Lengths /\ [][C2_Append]_vars

\* calls made in all three states, with different values in every feature
C2_Witness ==
    /\ baseline_size = 2
    /\ calls = 3
    /\ \A f \in FeatureSet :
          /\ Len(History(f)) = 3
          /\ History(f)[1] # History(f)[2]
          /\ History(f)[2] # History(f)[3]
    /\ passed.total_amount # passed.max_amount

Collecting(k) == k < baseline_size

BaselineJustComputed(k) == k = baseline_size

Scoring(k) == k > baseline_size

\* the decision of the k-th call is the one of the state that call is made in
C3_DecisionOfCall ==
    calls >= 1 =>
        /\ Collecting(calls) =>
              /\ ~decision.is_anomaly
              /\ DOMAIN decision.feature_z_scores = {}
              /\ decision.reason.text = "Not enough data for baseline"
        /\ BaselineJustComputed(calls) =>
              /\ ~decision.is_anomaly
              /\ DOMAIN decision.feature_z_scores = {}
              /\ decision.reason.text = "Baseline just computed; no detection yet"
        /\ Scoring(calls) =>
              /\ DOMAIN decision.feature_z_scores = FeatureSet
              /\ decision.reason.text \in {"Within normal range", "Anomalous features"}

\* every call is the next one, and a call made after a baseline or scoring
\* decision is scored
C3_Forward ==
    /\ calls' = calls + 1
    /\ (calls >= 1 /\ DOMAIN decision.feature_z_scores # {}) =>
          DOMAIN decision'.feature_z_scores # {}
    /\ (calls >= 1 /\ decision.reason.text = "Baseline just computed; no detection yet")
          => DOMAIN decision'.feature_z_scores # {}

\* C3: the k-th decision is is_anomaly = false with no z-scores for k <
\* baseline_size (Collecting) and for k = baseline_size (BaselineJustComputed),
\* and carries exactly the four z-scores for every k > baseline_size (Scoring);
\* the detector never goes back to an earlier state.
C3_ThreeStates == []C3_DecisionOfCall /\ [][C3_Forward]_vars

\* the baseline was computed on a block whose features are extreme next to the
\* two blocks before it, with no anomaly reported, and the call after it is
\* scored as an anomaly
C3_Witness ==
    /\ baseline_size = 3
    /\ calls = 4
    /\ \A f \in FeatureSet : History(f)[1] = History(f)[2]
    /\ total_amount_history[1] = 10 /\ total_amount_history[3] = 60
    /\ num_txs_history[1] = 2 /\ num_txs_history[3] = 9
    /\ decision.is_anomaly

\* abs(z) > threshold for z = sgn * sqrt(z[2] / z[3]) and threshold t >= 0
StrictlyAbove(z, t) == z[2] * t[2] * t[2] > t[1] * t[1] * z[3]

\* C4: a returned is_anomaly is true iff some z-score of the same decision has
\* absolute value strictly greater than z_threshold (z_threshold >= 0).
C4_AnomalyIffExceeds ==
    calls >= 1 =>
        (decision.is_anomaly <=>
            \E f \in DOMAIN decision.feature_z_scores :
                StrictlyAbove(decision.feature_z_scores[f], z_threshold))

\* an anomaly with a positive threshold: one z-score above it, one nonzero
\* z-score not above it
C4_Witness ==
    /\ z_threshold = <<3, 2>>
    /\ calls >= 1
    /\ decision.is_anomaly
    /\ \E f, g \in DOMAIN decision.feature_z_scores :
          /\ StrictlyAbove(decision.feature_z_scores[f], z_threshold)
          /\ decision.feature_z_scores[g][1] # 0
          /\ ~StrictlyAbove(decision.feature_z_scores[g], z_threshold)

RECURSIVE SumOfSquares(_)
SumOfSquares(lst) ==
    IF lst = <<>> THEN 0 ELSE Head(lst) * Head(lst) + SumOfSquares(Tail(lst))

\* n * (n - 1) * the sample variance of lst, an integer
ScaledVariance(lst) == Len(lst) * SumOfSquares(lst) - Sum(lst) * Sum(lst)

\* z is (v - m) / s for the mean m and the sample deviation s of lst, and 0.0
\* when s = 0: with n = Len(lst), S = Sum(lst), V = ScaledVariance(lst),
\* (v - m) / s = (n v - S) / n * sqrt(n (n - 1) / V)
IsZScoreOf(z, v, lst) ==
    LET n == Len(lst)
        V == ScaledVariance(lst)
        d == n * v - Sum(lst)
    IN  IF n = 1 \/ V = 0 THEN z = <<0, 0, 1>>
        ELSE /\ z[1] = Sign(d)
             /\ <<z[2], z[3]>> = Rat(d * d * (n - 1), n * V)

\* C5: every z-score returned in the Scoring state is (v - m) / s for the
\* value v passed on that call and the mean m and standard deviation s of the
\* first baseline_size values of that feature, and 0.0 when s = 0.
C5_ZScore ==
    Scoring(calls) =>
        \A f \in FeatureSet :
            IsZScoreOf(decision.feature_z_scores[f], passed[f], BaselineWindow(f))

\* a scored call with a negative z-score, a positive one and one that is 0.0
\* because the baseline deviation is 0 although the value is off the mean
C5_Witness ==
    /\ Scoring(calls)
    /\ \E f, g, h \in FeatureSet :
          /\ decision.feature_z_scores[f][1] = -1
          /\ decision.feature_z_scores[g][1] = 1
          /\ stats[h].std = <<0, 1>>
          /\ RatOfInt(passed[h]) # stats[h].mean
          /\ decision.feature_z_scores[h] = <<0, 0, 1>>

\* baseline_size = 3, three blocks with num_txs = [2,2,2], total_amount =
\* [10,10,10], max_amount = [5,5,5], time_delta = [0,1,1], and a 4th block
\* with num_txs = 2, total_amount = 10, max_amount = 5, time_delta = 1
C6_Scenario ==
    /\ baseline_size = 3
    /\ num_txs_history = <<2, 2, 2, 2>>
    /\ total_amount_history = <<10, 10, 10, 10>>
    /\ max_amount_history = <<5, 5, 5, 5>>
    /\ time_delta_history = <<0, 1, 1, 1>>

C6_Baseline ==
    /\ baseline_ready
    /\ stats["num_txs"].mean = <<2, 1>>
    /\ stats["total_amount"].mean = <<10, 1>>
    /\ stats["max_amount"].mean = <<5, 1>>
    /\ stats["time_delta"].mean = <<2, 3>>
    /\ stats["num_txs"].std = <<0, 1>>
    /\ stats["total_amount"].std = <<0, 1>>
    /\ stats["max_amount"].std = <<0, 1>>

\* C6 as stated: in the scenario the baseline has means (2, 10, 5, 2/3) and
\* std 0 for the three constant features, and the 4th block yields all four
\* z-scores equal to 0.0 and is_anomaly = false.
C6_AsStated ==
    C6_Scenario =>
        /\ C6_Baseline
        /\ \A f \in FeatureSet : decision.feature_z_scores[f] = <<0, 0, 1>>
        /\ ~decision.is_anomaly

\* C6, amended: in the scenario the baseline has means (2, 10, 5, 2/3), std 0
\* for the three constant features and std sqrt(1/3) for time_delta; the 4th
\* block yields z-score 0.0 for num_txs, total_amount and max_amount and
\* (1 - 2/3) / sqrt(1/3) = sqrt(1/3) for time_delta, and is_anomaly is false
\* iff z_threshold >= sqrt(1/3) (so for the thresholds 1.5 and 3.0).
C6_EndToEnd ==
    C6_Scenario =>
        /\ C6_Baseline
        /\ stats["time_delta"].std = <<1, 3>>
        /\ \A f \in FeatureSet \ {"time_delta"} :
              decision.feature_z_scores[f] = <<0, 0, 1>>
        /\ decision.feature_z_scores["time_delta"] = <<1, 1, 3>>
        /\ decision.is_anomaly <=> StrictlyAbove(<<1, 1, 3>>, z_threshold)

\* the scenario, run with the default threshold 3.0
C6_Witness == C6_Scenario /\ z_threshold = <<3, 1>> /\ ~decision.is_anomaly

RuleViolated(rule, f) ==
    CASE rule = "Rule1" -> f.max_amount > max_single_tx_amount
      [] rule = "Rule2" -> f.total_amount > max_block_total_amount
      [] rule = "Rule3" -> f.time_delta # 0 /\ f.time_delta < min_time_delta

RuleValue(rule, f) ==
    CASE rule = "Rule1" -> f.max_amount
      [] rule = "Rule2" -> f.total_amount
      [] rule = "Rule3" -> f.time_delta

RuleThreshold(rule) ==
    CASE rule = "Rule1" -> max_single_tx_amount
      [] rule = "Rule2" -> max_block_total_amount
      [] rule = "Rule3" -> min_time_delta

ViolatedRules(f) ==
    SelectSeq(<<"Rule1", "Rule2", "Rule3">>, LAMBDA r : RuleViolated(r, f))

\* C7: the violations check_rules returns are exactly the violated rules among
\* R1, R2, R3, one entry each, in that order, each with its measured value and
\* threshold; rule_alert is true iff the list is non-empty.
C7_AllRulesChecked ==
    checked # None =>
        LET expected == ViolatedRules(checked)
            got == rule_decision.violations
        IN  /\ Len(got) = Len(expected)
            /\ \A i \in 1..Len(got) :
                  /\ got[i].rule = expected[i]
                  /\ got[i].value = RuleValue(expected[i], checked)
                  /\ got[i].threshold = RuleThreshold(expected[i])
            /\ rule_decision.rule_alert <=> (got # <<>>)

\* a vector that violates all three rules at once
C7_Witness ==
    /\ checked # None
    /\ Len(rule_decision.violations) = 3
    /\ rule_decision.rule_alert

HasRule3(rd) ==
    \E i \in 1..Len(rd.violations) : rd.violations[i].rule = "Rule3"

C9_AlertWheneverBelow ==
    (checked # None /\ checked.time_delta < min_time_delta)
        => (rule_decision.rule_alert /\ HasRule3(rule_decision))

\* the largest of a non-empty sequence of amounts
Largest(amounts) ==
    CHOOSE a \in {amounts[i] : i \in 1..Len(amounts)} :
        \A i \in 1..Len(amounts) : amounts[i] <= a

RECURSIVE SumUpTo(_, _)
SumUpTo(amounts, n) ==
    IF n = 0 THEN 0 ELSE SumUpTo(amounts, n - 1) + amounts[n]

\* C10: extract_features returns exactly the four fields: the number of
\* transactions, the sum of their amounts, their largest amount, and the
\* timestamp difference to the previous block, or 0.0 without one; for an
\* empty transaction list total_amount and max_amount are 0.0.
C10_ExtractFeatures ==
    (features # None /\ current_block # None) =>
        LET txs == current_block.transactions
            amounts == [i \in 1..Len(txs) |-> txs[i].amount]
        IN  /\ DOMAIN features = FeatureSet
            /\ features.num_txs = Len(txs)
            /\ features.total_amount = SumUpTo(amounts, Len(txs))
            /\ features.max_amount = IF txs = <<>> THEN 0 ELSE Largest(amounts)
            /\ features.time_delta =
                  IF previous_block # None
                  THEN current_block.timestamp - previous_block.timestamp
                  ELSE 0
            /\ txs = <<>> => features.total_amount = 0 /\ features.max_amount = 0

\* features of a block with two different amounts, the larger one first, that
\* is older than the block given as its predecessor
C10_Witness ==
    /\ features # None
    /\ current_block # None
    /\ previous_block # None
    /\ Len(current_block.transactions) = 2
    /\ current_block.transactions[1].amount > current_block.transactions[2].amount
    /\ current_block.timestamp < previous_block.timestamp

\* the blocks of the chain whose stored hash is not the hash of their fields
HashMismatches == {i \in 1..Len(chain) : chain[i].hash # compute_hash(chain[i])}

\* the blocks of the chain, the genesis block aside, whose previous_hash is not
\* the stored hash of the block before them
BrokenLinks == {i \in 2..Len(chain) : chain[i].previous_hash # chain[i - 1].hash}

\* C11: is_chain_valid returns False whenever any block, the genesis block
\* (index 0) included, has a stored hash different from its recomputed hash, or
\* any block after the genesis block has a previous_hash different from its
\* predecessor's stored hash.
C11_AllBlocksVerified ==
    (HashMismatches # {} \/ BrokenLinks # {}) => ~is_chain_valid(chain)

\* what is_chain_valid does verify: every block after the genesis block
C11_LaterBlocksVerified ==
    is_chain_valid(chain) <=> (HashMismatches \subseteq {1} /\ BrokenLinks = {})

\* a field of the genesis block was assigned and is_chain_valid returns True
C11_GenesisTamperedUnnoticed ==
    /\ Len(chain) > 1
    /\ 1 \in HashMismatches
    /\ is_chain_valid(chain)

\* the chain is the constructor's block followed by the blocks of add_block
C17_Structure ==
    ~tampered =>
        /\ Len(chain) >= 1
        /\ \A i \in 1..Len(chain) : chain[i].index = i - 1
        /\ chain[1].previous_hash = ZeroHash
        /\ \A i \in 2..Len(chain) : chain[i].previous_hash = chain[i - 1].hash

\* add_block leaves the blocks it found in place and puts one block after them
C17_OnlyAppends ==
    (~tampered' /\ chain' # chain) =>
        /\ Len(chain') = Len(chain) + 1
        /\ SubSeq(chain', 1, Len(chain)) = chain

\* C17: after the constructor and any sequence of add_block calls the chain is
\* non-empty, chain[i].index = i for every i, chain[0].previous_hash is "0",
\* chain[i].previous_hash = chain[i-1].hash for every i >= 1, and add_block only
\* appends: it never removes, reorders or rewrites a block.
C17_ChainInvariants == []C17_Structure /\ [][C17_OnlyAppends]_vars

C17_Witness ==
    /\ ~tampered
    /\ Len(chain) = 3
    /\ chain[3].index = 2
    /\ chain[3].previous_hash = chain[2].hash
    /\ chain[2].transactions # chain[3].transactions

\* C18: for any chain built only by the constructor and add_block, with no
\* field of a block modified afterwards, is_chain_valid returns True.
C18_UntouchedChainValid == ~tampered => is_chain_valid(chain)

C18_Witness ==
    /\ ~tampered
    /\ Len(chain) = 3
    /\ chain[3].timestamp > chain[1].timestamp
    /\ chain[3].transactions # <<>>
    /\ is_chain_valid(chain)

\* C15: with baseline_size = 1 the first call computes the baseline without
\* error, with standard deviation 0.0 for all four features; every later call
\* returns all four z-scores equal to 0.0 and is_anomaly = false, whatever the
\* feature values.
C15_BaselineOfOne ==
    (baseline_size = 1 /\ calls >= 1) =>
        /\ baseline_ready
        /\ \A f \in FeatureSet :
              /\ stats[f].mean = RatOfInt(History(f)[1])
              /\ stats[f].std = <<0, 1>>
        /\ calls = 1 =>
              decision.reason.text = "Baseline just computed; no detection yet"
        /\ calls >= 2 =>
              /\ DOMAIN decision.feature_z_scores = FeatureSet
              /\ \A f \in FeatureSet : decision.feature_z_scores[f] = <<0, 0, 1>>
              /\ ~decision.is_anomaly

\* a block far from the baseline block in every feature, scored under the
\* threshold 0
C15_Witness ==
    /\ baseline_size = 1
    /\ z_threshold = <<0, 1>>
    /\ calls >= 2
    /\ num_txs_history[1] = 2 /\ passed.num_txs = 9
    /\ total_amount_history[1] = 10 /\ passed.total_amount = 60
    /\ max_amount_history[1] = 5 /\ passed.max_amount = 25
    /\ time_delta_history[1] = 0 /\ passed.time_delta = 1
    /\ ~decision.is_anomaly

\* a z-score is a number
IsNumber(z) == Len(z) = 3 /\ z[1] \in {-1, 0, 1} /\ z[2] >= 0 /\ z[3] > 0

C16_ReadyIffEnoughData ==
    /\ calls >= 1 => (baseline_ready <=> HistoryLength >= baseline_size)
    /\ baseline_ready =>
          \A f \in FeatureSet :
              /\ stats[f].mean # None /\ stats[f].mean[2] > 0
              /\ stats[f].std # None /\ stats[f].std[1] >= 0 /\ stats[f].std[2] > 0
    /\ calls >= 1 =>
          \A f \in DOMAIN decision.feature_z_scores :
              IsNumber(decision.feature_z_scores[f])

\* a call that scores read a baseline that was ready and defined, and every
\* call returns a decision for its block
C16_ScoresFromDefinedStats ==
    /\ decision' # None /\ decision'.block_index = calls'
    /\ DOMAIN decision'.feature_z_scores # {} => (baseline_ready /\ StatsDefined)

\* C16: after every process_block call (baseline_size >= 1) baseline_ready is
\* true iff the history length is >= baseline_size, and baseline_ready implies
\* that all four means and all four standard deviations are defined; the
\* Scoring branch never computes a z-score from an undefined mean or std and
\* process_block never raises.
C16_NeverScoresUndefined ==
    []C16_ReadyIffEnoughData /\ [][C16_ScoresFromDefinedStats]_vars

\* calls made before, on and after the baseline call, the last one scored
C16_Witness ==
    /\ baseline_size = 2
    /\ calls = 4
    /\ baseline_ready
    /\ decision.feature_z_scores.time_delta # <<0, 0, 1>>
    /\ decision.feature_z_scores.num_txs[1] = -1

\* the list object detector i holds as its history of feature f
HistoryOf(hp, ds, i, f) ==
    CASE f = "num_txs"      -> hp[ds[i].num_txs_history]
      [] f = "total_amount" -> hp[ds[i].total_amount_history]
      [] f = "max_amount"   -> hp[ds[i].max_amount_history]
      [] f = "time_delta"   -> hp[ds[i].time_delta_history]

\* the values of feature f in a sequence of feature vectors
Column(log, f) == [k \in 1..Len(log) |-> log[k][f]]

\* the decision a detector of its own returns on the last of the calls log
SoloDecision(size, threshold, log) ==
    LET n == Len(log)
        z_scores == [f \in FeatureSet |->
                        LET b == mean_std(SubSeq(Column(log, f), 1, size))
                        IN  _z_score(log[n][f], b.mean, b.std)]
        anoms == anomalies(z_scores, threshold)
    IN  IF n < size
        THEN Decision(n, FALSE, NoZScores, "Not enough data for baseline", <<>>)
        ELSE IF n = size
        THEN Decision(n, FALSE, NoZScores,
                      "Baseline just computed; no detection yet", <<>>)
        ELSE IF anoms # <<>>
        THEN Decision(n, TRUE, z_scores, "Anomalous features", anoms)
        ELSE Decision(n, FALSE, z_scores, "Within normal range", <<>>)

\* every detector's state and decision are those of its own calls
C12_OwnCallsOnly ==
    /\ \A i \in 1..Len(detectors) :
          /\ \A f \in FeatureSet : HistoryOf(heap, detectors, i, f) = Column(made[i], f)
          /\ detectors[i].baseline_ready <=> Len(made[i]) >= detectors[i].baseline_size
    /\ last # None =>
          last.decision = SoloDecision(detectors[last.instance].baseline_size,
                                       detectors[last.instance].z_threshold,
                                       made[last.instance])

\* a call leaves every detector it was not made on as it was
C12_OthersUnchanged ==
    \A i \in 1..Len(detectors) :
        made'[i] = made[i] =>
            /\ detectors'[i] = detectors[i]
            /\ \A f \in FeatureSet :
                  HistoryOf(heap', detectors', i, f) = HistoryOf(heap, detectors, i, f)

\* C12: a process_block call on one AnomalyDetector instance leaves the
\* histories, stats and baseline_ready of every other instance unchanged, and
\* each instance's decisions depend only on the calls made on that instance.
C12_InstancesIndependent == []C12_OwnCallsOnly /\ [][C12_OthersUnchanged]_vars

\* the first detector scores an anomaly while the second, called in between,
\* has seen other blocks and has not reached its baseline
C12_Witness ==
    /\ Len(detectors) = 2
    /\ Len(made[1]) = 3 /\ Len(made[2]) = 1
    /\ detectors[1].baseline_ready /\ ~detectors[2].baseline_ready
    /\ made[2][1] # made[1][1]
    /\ last.instance = 1
    /\ last.decision.is_anomaly

\* the state of the detector's state machine
DetectorState ==
    <<num_txs_history, total_amount_history, max_amount_history,
      time_delta_history, stats, baseline_ready>>

\* a call of extract_features that returned something new left the detector
\* and both blocks as they were, and returned the features of the two blocks
C13_ExtractStep ==
    features' # features =>
        /\ UNCHANGED DetectorState
        /\ UNCHANGED <<calls, decision, baseline_size, z_threshold>>
        /\ UNCHANGED <<current_block, previous_block>>
        /\ features' = extract_features(current_block, previous_block)

\* C13: extract_features has no side effects: called any number of times, in
\* any detector state, it leaves the detector's four histories, stats and
\* baseline_ready unchanged and does not modify either block, so it never
\* advances the Collecting/Scoring state machine.
C13_ExtractFeaturesPure ==
    [](Len(num_txs_history) = calls) /\ [][C13_ExtractStep]_vars

\* features extracted while the detector is scoring, from a block and its
\* predecessor, after features of other blocks went into the histories
C13_Witness ==
    /\ baseline_ready
    /\ calls > baseline_size
    /\ previous_block # None
    /\ features = extract_features(current_block, previous_block)
    /\ features # passed
    /\ \A k \in 1..calls : time_delta_history[k] # features.time_delta

\* the decision check_rules returned is the one it returns now for the same
\* vector, whatever the detector did in between
C14_SameDecision ==
    rule_decision # None => rule_decision = check_rules(checked)

\* a call of check_rules left the three thresholds and the detector as they
\* were
C14_CheckStep ==
    (checked' # checked \/ rule_decision' # rule_decision) =>
        /\ UNCHANGED <<max_single_tx_amount, max_block_total_amount, min_time_delta>>
        /\ UNCHANGED DetectorState
        /\ UNCHANGED <<calls, decision>>

\* C14: check_rules leaves the checker's three thresholds and the detector's
\* state unchanged, and for a given feature vector it returns the same
\* RuleDecision whether it is called before or after process_block and
\* whatever state (Collecting, BaselineJustComputed, Scoring) the detector is in.
C14_RulesIndependentOfDetector == []C14_SameDecision /\ [][C14_CheckStep]_vars

\* a rule alert returned while the detector was collecting, for a vector the
\* detector has since scored as normal
C14_Witness ==
    /\ rule_decision # None /\ rule_decision.rule_alert
    /\ baseline_size = 1 /\ calls = 2
    /\ checked = passed
    /\ DOMAIN decision.feature_z_scores = FeatureSet
    /\ ~decision.is_anomaly

\* the index of the last appended block
LastIndex == last_block(chain).index

\* where run_experiment stands in iteration k = iteration: before add_block
\* the blocks 1..k-1 are appended and processed; between add_block and the
\* return of process_block block k is appended and not yet processed, and its
\* features are taken against chain[k-1]; after process_block block k is
\* processed, with block_index k
C19_InLedgerOrder ==
    /\ Len(chain) >= 1
    /\ \A k \in 1..Len(chain) : chain[k].index = k - 1
    /\ calls = HistoryLength
    /\ pc \in {"add_block", "done"} =>
          /\ LastIndex = iteration - 1
          /\ HistoryLength = LastIndex
    /\ pc \in {"extract_features", "process_block"} =>
          /\ LastIndex = iteration
          /\ HistoryLength = LastIndex - 1
          /\ current_block = chain[iteration + 1]
          /\ previous_block = chain[iteration]
    /\ pc = "process_block" =>
          features = extract_features(chain[iteration + 1], chain[iteration])
    /\ pc \in {"check_rules", "end_of_iteration"} =>
          /\ LastIndex = iteration
          /\ HistoryLength = LastIndex
          /\ decision.block_index = iteration
          /\ passed = extract_features(chain[iteration + 1], chain[iteration])
    /\ baseline_ready <=> HistoryLength >= baseline_size
    /\ pc = "done" =>
          /\ Len(chain) = num_blocks + 1
          /\ HistoryLength = num_blocks

\* a block is added only when every block before it was processed, and the
\* baseline is computed by the call for block index baseline_size
C19_OneAtATime ==
    /\ chain' # chain =>
          /\ Len(chain') = Len(chain) + 1
          /\ HistoryLength = Len(chain) - 1
    /\ calls' # calls =>
          /\ calls' = calls + 1
          /\ decision'.block_index = LastIndex
          /\ HistoryLength' = LastIndex
    /\ (~baseline_ready /\ baseline_ready') =>
          /\ current_block.index = baseline_size
          /\ decision'.block_index = baseline_size

\* C19 (amended): iteration k appends the block with index k, extracts its
\* features against chain[k-1], and calls process_block once with block_index
\* k before the next block is added; the history length equals the index of
\* the last appended block whenever process_block has returned for it, and is
\* one less between add_block and that return; the baseline is computed on
\* block index baseline_size when baseline_size <= num_blocks; at the end the
\* chain has num_blocks + 1 blocks and the history num_blocks entries.
C19_StrictlySequential == []C19_InLedgerOrder /\ [][C19_OneAtATime]_vars

\* C19: in run_experiment the detector's history length always equals the
\* index of the last appended block.
C19_AsStated ==
    pc # "idle" =>
        /\ Len(chain) >= 1
        /\ HistoryLength = LastIndex

\* the run is over: the baseline was computed on the second of three blocks
\* and the third, an anomalous block after two normal ones, was scored
C19_Witness ==
    /\ pc = "done"
    /\ num_blocks = 3 /\ baseline_size = 2
    /\ Len(chain) = 4 /\ HistoryLength = 3
    /\ baseline_ready
    /\ decision.block_index = 3
    /\ decision.is_anomaly
    /\ rule_decision.rule_alert

====
